---------------------------- MODULE Spec2Model ----------------------------
(***************************************************************************)
(* temp-mon: the poll loop of src/main.ts (main, logSysTemperatures) and   *)
(* its two resolvers (getCpuTemperature, getGpuTemperatures).              *)
(*                                                                         *)
(* Representation.                                                         *)
(*  - A JavaScript number is a record [t, v]: t = "num" with v the value   *)
(*    in thousandths (45.0 is v = 45000), or t = "nan" / "inf"; null and   *)
(*    undefined are t = "null".                                            *)
(*  - A JavaScript string is the sequence of its characters, so that       *)
(*    trim, split, parseInt, parseFloat and the regular-expression tests   *)
(*    are computed character by character as the runtime computes them.    *)
(*  - Date.now() is kept relative to the running tick's `started`.         *)
(*  - Every collaborator call (systeminformation, fs, execSync, logger)    *)
(*    draws its outcome from a small set: it returns one of the listed     *)
(*    values or it throws.                                                 *)
(***************************************************************************)
EXTENDS Integers, Sequences, FiniteSets, TLC

(***************************************************************************)
(* JavaScript values                                                       *)
(***************************************************************************)
Num(v) == [t |-> "num", v |-> v]
NaN == [t |-> "nan", v |-> 0]
Infinity == [t |-> "inf", v |-> 0]
Null == [t |-> "null", v |-> 0]

\* typeof x === 'number' && !Number.isNaN(x)
IsNumberNotNaN(x) == x.t \in {"num", "inf"}

\* a > b on two numbers that are not NaN
Gt(a, b) ==
  CASE a.t = "inf" -> b.t # "inf"
    [] b.t = "inf" -> FALSE
    [] OTHER -> a.v > b.v

(***************************************************************************)
(* Strings                                                                 *)
(***************************************************************************)
Digits == <<"0", "1", "2", "3", "4", "5", "6", "7", "8", "9">>
IsDigit(c) == \E i \in 1..10 : Digits[i] = c
DigitVal(c) == (CHOOSE i \in 1..10 : Digits[i] = c) - 1
IsSpace(c) == c \in {" ", "\n", "\t", "\r"}

Upper == <<"A", "B", "C", "D", "E", "F", "G", "H", "I", "J", "K", "L", "M",
           "N", "O", "P", "Q", "R", "S", "T", "U", "V", "W", "X", "Y", "Z">>
Lower == <<"a", "b", "c", "d", "e", "f", "g", "h", "i", "j", "k", "l", "m",
           "n", "o", "p", "q", "r", "s", "t", "u", "v", "w", "x", "y", "z">>
ToLowerChar(c) ==
  IF \E i \in 1..26 : Upper[i] = c
  THEN Lower[CHOOSE i \in 1..26 : Upper[i] = c]
  ELSE c
ToLower(s) == [i \in 1..Len(s) |-> ToLowerChar(s[i])]

\* pat occurs in s
Contains(s, pat) ==
  \E i \in 1..(Len(s) - Len(pat) + 1) : SubSeq(s, i, i + Len(pat) - 1) = pat

\* /p1|p2|.../i.test(s)
TestAnyIgnoreCase(pats, s) == \E p \in pats : Contains(ToLower(s), p)

RECURSIVE TrimStart(_)
TrimStart(s) ==
  IF s # <<>> /\ IsSpace(Head(s)) THEN TrimStart(Tail(s)) ELSE s

RECURSIVE TrimEnd(_)
TrimEnd(s) ==
  IF s # <<>> /\ IsSpace(s[Len(s)])
  THEN TrimEnd(SubSeq(s, 1, Len(s) - 1))
  ELSE s

\* String.prototype.trim
trim(s) == TrimEnd(TrimStart(s))

\* s.split(/\s*\n\s*/)[0]: the text before the first run of white space
\* that holds a line break (the whole string when there is none)
FirstLine(s) ==
  IF \E i \in 1..Len(s) : s[i] = "\n"
  THEN LET nl == CHOOSE i \in 1..Len(s) :
                   s[i] = "\n" /\ \A j \in 1..(i - 1) : s[j] # "\n"
       IN TrimEnd(SubSeq(s, 1, nl - 1))
  ELSE s

\* the longest prefix of decimal digits
RECURSIVE DigitPrefix(_)
DigitPrefix(s) ==
  IF s # <<>> /\ IsDigit(Head(s))
  THEN <<Head(s)>> \o DigitPrefix(Tail(s))
  ELSE <<>>

RECURSIVE DigitsValue(_)
DigitsValue(ds) ==
  IF ds = <<>> THEN 0
  ELSE 10 * DigitsValue(SubSeq(ds, 1, Len(ds) - 1)) + DigitVal(ds[Len(ds)])

\* an optional sign: <<sign, rest>>
SplitSign(s) ==
  IF s # <<>> /\ Head(s) = "-" THEN <<-1, Tail(s)>>
  ELSE IF s # <<>> /\ Head(s) = "+" THEN <<1, Tail(s)>>
  ELSE <<1, s>>

\* parseInt(s, 10): leading white space, a sign, then the digit prefix; NaN
\* when there is no digit. The result is an integer (in thousandths here).
parseInt(s) ==
  LET sr == SplitSign(TrimStart(s))
      ds == DigitPrefix(sr[2])
  IN IF ds = <<>> THEN NaN ELSE Num(sr[1] * DigitsValue(ds) * 1000)

\* the first three fraction digits, in thousandths
FractionValue(fs) ==
  LET d(i) == IF i <= Len(fs) THEN DigitVal(fs[i]) ELSE 0
  IN 100 * d(1) + 10 * d(2) + d(3)

s_Infinity == <<"I", "n", "f", "i", "n", "i", "t", "y">>

\* parseFloat(s): leading white space, a sign, then "Infinity" or digits with
\* an optional fraction; NaN otherwise. (No input of the model carries an
\* exponent or more than three fraction digits.)
parseFloat(s) ==
  LET sr == SplitSign(TrimStart(s))
      body == sr[2]
      ds == DigitPrefix(body)
      after == SubSeq(body, Len(ds) + 1, Len(body))
      fs == IF after # <<>> /\ Head(after) = "." THEN DigitPrefix(Tail(after))
            ELSE <<>>
  IN IF Len(body) >= 8 /\ SubSeq(body, 1, 8) = s_Infinity THEN Infinity
     ELSE IF ds = <<>> /\ fs = <<>> THEN NaN
     ELSE Num(sr[1] * (DigitsValue(ds) * 1000 + FractionValue(fs)))


(***************************************************************************)
(* getCpuTemperature: the strategies as functions of what the collaborator *)
(* returned.  A strategy yields a number or Null ("yielded nothing").      *)
(***************************************************************************)

\* what si.cpuTemperature() does: it throws, or resolves with main
LibraryOutcomes ==
  [threw : {FALSE}, main : {Null, NaN, Infinity, Num(45000), Num(200000)}]
    \cup {[threw |-> TRUE, main |-> Null]}

\* main.ts 13-15
LibraryYield_NoNaNCheck(main) == IF main.t # "null" THEN main ELSE Null

LibraryYield(main) == IF IsNumberNotNaN(main) THEN main ELSE Null

\* the strategy after the library: the Windows chain only on win32
AfterLibrary_SkipsWindowsChain(p) == "cpu_zones"

AfterLibrary(p) == IF p = "win32" THEN "cpu_lhm" ELSE "cpu_zones"

\* /tctl|tdie|package|cpu temp|ccd|core \(tctl\/tdie\)/i
LhmPatterns ==
  { <<"t", "c", "t", "l">>, <<"t", "d", "i", "e">>,
    <<"p", "a", "c", "k", "a", "g", "e">>,
    <<"c", "p", "u", " ", "t", "e", "m", "p">>, <<"c", "c", "d">>,
    <<"c", "o", "r", "e", " ", "(", "t", "c", "t", "l", "/", "t", "d", "i", "e", ")">> }

\* a node of the exported JSON: an object with Text, Value, Children (an
\* absent Text is the empty string, an absent or non-numeric Value is Null,
\* absent Children are the empty array), or something that is no object
Node(text, value, children) ==
  [obj |-> TRUE, Text |-> text, Value |-> value, Children |-> children]
NotAnObject == [obj |-> FALSE, Text |-> <<>>, Value |-> Null, Children |-> <<>>]

t_Core == <<"C", "o", "r", "e", " ", "(", "T", "c", "t", "l", "/", "T", "d", "i", "e", ")">>
t_Package == <<"C", "P", "U", " ", "P", "a", "c", "k", "a", "g", "e">>
t_CCD == <<"C", "C", "D", "1", " ", "(", "T", "d", "i", "e", ")">>
t_Fan == <<"F", "a", "n", " ", "#", "1">>
t_CPU == <<"C", "P", "U">>

\* the documents JSON.parse(fs.readFileSync(lhmPath)) returns in the model
LhmDocuments ==
  { NotAnObject,
    Node(<<>>, Null, <<>>),
    Node(<<>>, Null, << Node(t_CPU, Null, << Node(t_Core, Num(55300), <<>>),
                                            Node(t_Fan, Num(90000), <<>>) >>) >>),
    Node(t_Package, Num(61000), << Node(t_CCD, Num(64500), <<>>),
                                   Node(t_CCD, Num(58000), <<>>) >>),
    Node(t_Fan, Num(70000), << Node(t_Fan, Num(80000), << Node(t_Core, Num(200000), <<>>) >>),
                               NotAnObject >>),
    Node(t_CPU, Num(50000), << Node(t_Package, Null, <<>>) >>),
    Node(t_Core, Infinity, <<>>) }

\* main.ts 36-51: the walk, with the closure variable best threaded through
RECURSIVE walk(_, _)
walk(node, best) ==
  IF ~node.obj THEN best
  ELSE LET here ==
             IF /\ node.Text # <<>>
                /\ TestAnyIgnoreCase(LhmPatterns, node.Text)
                /\ node.Value.t # "null"
                /\ (best.t = "null" \/ Gt(node.Value, best))
             THEN node.Value
             ELSE best
           kids[i \in 0..Len(node.Children)] ==
             IF i = 0 THEN here ELSE walk(node.Children[i], kids[i - 1])
       IN kids[Len(node.Children)]

\* main.ts 52-53
LhmYield(json) == walk(json, Null)

\* what execSync(powershell ...) does under its 3000 ms timeout: it throws
\* (not installed, non-zero exit, or killed at the timeout) or returns stdout
PsOutcomes == {"ok", "fails", "timeout"}
OhmOutputs ==
  { <<>>, <<"5", "5", ".", "3", "\r", "\n">>, <<"2", "0", "0">>, <<"a", "b", "c">> }

\* main.ts 67-72
OhmYield(stdout) ==
  LET out == trim(stdout)
      parsed == parseFloat(out)
  IN IF out # <<>> /\ parsed.t # "nan" THEN parsed ELSE Null

AcpiOutputs ==
  { <<>>, <<"3", "2", "8", "1", "\r", "\n">>, <<"0">>, <<"-", "1", "0">>,
    <<"2", "2", "3", "1">>, <<"4", "2", "3", "1">>, <<"4", "2", "3", "2">>,
    <<"2", "5", "6", "4">>, <<"a", "b", "c">> }

\* c.toFixed(1) read back by parseFloat: the nearest tenth. val / 10 - 273.15
\* always ends in 5 hundredths, and the binary rounding error of the
\* subtraction decides the side the double lies on: up is that side.
ToFixed1(c, up) ==
  LET lower == (c.v \div 100) * 100
      rem == c.v - lower
  IN IF c.t # "num" THEN c
     ELSE IF rem = 0 THEN c
     ELSE IF rem > 50 \/ (rem = 50 /\ up) THEN Num(lower + 100)
     ELSE Num(lower)

RoundsUp_Never(val) == FALSE

\* the side of the tie the double val / 10 - 273.15 is rounded to by
\* toFixed(1), for the val that pass the range check (2232..4231): the double
\* lies above the tie xx.x5 and is rounded up, except for val = 2564, 2569,
\* ..., 2729, where it is the tie itself (-16.75 ... -0.25, exact in binary)
\* and toFixed rounds it away from zero
RoundsUp(val) ==
  LET raw == val.v \div 1000
  IN ~(raw >= 2564 /\ raw <= 2729 /\ raw % 5 = 4)

DeciKelvinToCelsius_NoOffset(val) == Num(val.v \div 10)

\* main.ts 90: val / 10 - 273.15
DeciKelvinToCelsius(val) == Num(val.v \div 10 - 273150)

\* main.ts 84-95
AcpiYield(stdout, up) ==
  LET raw == trim(stdout)
      val == parseInt(raw)
      c == DeciKelvinToCelsius(val)
  IN IF raw # <<>> /\ val.t = "num" /\ val.v > 0
        /\ c.v > -50000 /\ c.v < 150000
     THEN ToFixed1(c, up)
     ELSE Null

\* /cpu|x86_pkg|soc/i
ZonePatterns ==
  { <<"c", "p", "u">>, <<"x", "8", "6", "_", "p", "k", "g">>, <<"s", "o", "c">> }

\* an entry of /sys/class/thermal: whether its name starts with
\* thermal_zone, and what existsSync and readFileSync do on its two files
Zone(type, temp) ==
  [zone |-> TRUE, typeExists |-> TRUE, tempExists |-> TRUE,
   typeReads |-> TRUE, tempReads |-> TRUE, type |-> type, temp |-> temp]

z_x86 == <<"x", "8", "6", "_", "p", "k", "g", "_", "t", "e", "m", "p", "\n">>
z_soc == <<"s", "o", "c", "-", "t", "h", "e", "r", "m", "a", "l", "\n">>
z_wifi == <<"i", "w", "l", "w", "i", "f", "i", "\n">>
z_CPU == <<"C", "P", "U", "-", "t", "h", "e", "r", "m", "\n">>
m_52000 == <<"5", "2", "0", "0", "0", "\n">>
m_48000 == <<"4", "8", "0", "0", "0", "\n">>
m_30000 == <<"3", "0", "0", "0", "0", "\n">>
m_45123 == <<"4", "5", "1", "2", "3", "\n">>

\* the directory listings readdirSync returns in the model
ZoneListings ==
  { <<>>,
    << Zone(z_wifi, m_30000), Zone(z_x86, m_52000), Zone(z_soc, m_48000) >>,
    << Zone(z_wifi, m_52000) >>,
    << Zone(z_CPU, m_45123), [Zone(z_x86, m_52000) EXCEPT !.zone = FALSE] >>,
    << [Zone(z_x86, m_52000) EXCEPT !.tempExists = FALSE],
       [Zone(z_x86, m_48000) EXCEPT !.typeReads = FALSE],
       Zone(z_soc, <<"-", "5", "0", "0", "0">>) >>,
    << [Zone(z_soc, m_52000) EXCEPT !.tempReads = FALSE],
       Zone(z_x86, <<"n", "/", "a">>),
       [Zone(z_CPU, m_30000) EXCEPT !.typeExists = FALSE] >>,
    << Zone(z_x86, <<"2", "0", "0", "0", "0", "0">>) >> }

\* main.ts 125: milli / 1000 (the integer milli is v = 1000 * milli, and
\* milli / 1000 degrees are milli thousandths)
MilliToCelsius(milli) == Num(milli.v \div 1000)

ScanZone_KeepsLast(z, best) ==
  IF ~z.typeExists \/ ~z.tempExists THEN best
  ELSE IF ~z.typeReads THEN best
  ELSE IF ~TestAnyIgnoreCase(ZonePatterns, trim(z.type)) THEN best
  ELSE IF ~z.tempReads THEN best
  ELSE LET milli == parseInt(trim(z.temp))
       IN IF milli.t # "nan" THEN MilliToCelsius(milli) ELSE best

\* main.ts 110-133: one iteration of the loop over the zones
ScanZone(z, best) ==
  IF ~z.typeExists \/ ~z.tempExists THEN best
  ELSE IF ~z.typeReads THEN best
  ELSE IF ~TestAnyIgnoreCase(ZonePatterns, trim(z.type)) THEN best
  ELSE IF ~z.tempReads THEN best
  ELSE LET milli == parseInt(trim(z.temp))
           c == MilliToCelsius(milli)
       IN IF milli.t # "nan" /\ (best.t = "null" \/ Gt(c, best)) THEN c
          ELSE best

\* main.ts 105-135: the zones kept by the filter, scanned in order
ZonesYield(entries) ==
  LET zones == SelectSeq(entries, LAMBDA d : d.zone)
      scan[i \in 0..Len(zones)] ==
        IF i = 0 THEN Null ELSE ScanZone(zones[i], scan[i - 1])
  IN scan[Len(zones)]

(***************************************************************************)
(* getGpuTemperatures: the per-controller computations                     *)
(***************************************************************************)
Controller(vendor, model, temperatureGpu, temperatureMemory) ==
  [vendor |-> vendor, model |-> model,
   temperatureGpu |-> temperatureGpu, temperatureMemory |-> temperatureMemory]

s_NVIDIA == <<"N", "V", "I", "D", "I", "A">>
s_RTX == <<"R", "T", "X", " ", "X">>
s_Unknown == <<"U", "n", "k", "n", "o", "w", "n", " ", "G", "P", "U">>

\* the controllers si.graphics() reports in the model
Controllers ==
  { Controller(s_NVIDIA, s_RTX, Null, Null),
    Controller(s_NVIDIA, s_RTX, Num(60000), Num(70000)),
    Controller(s_NVIDIA, <<>>, Null, Num(70000)),
    Controller(<<>>, <<>>, NaN, NaN) }

\* the most controllers one enumeration reports
MaxControllers == 2

ControllerLists ==
  UNION { [1..n -> Controllers] : n \in 0..MaxControllers }

\* main.ts 157-165: a reported temperature, when numeric and not NaN
ReportedTemp(x) == IF IsNumberNotNaN(x) THEN x ELSE Null

\* main.ts 168: /nvidia/i.test(c.vendor + ' ' + c.model)
IsNvidia(c) ==
  TestAnyIgnoreCase({ <<"n", "v", "i", "d", "i", "a">> },
                    c.vendor \o <<" ">> \o c.model)

\* what execSync('nvidia-smi ...') does, called with no timeout: it throws
\* (binary missing, non-zero exit), it never returns, or it returns stdout
NvidiaSmiOutcomes ==
  [kind : {"fails", "hangs"}, stdout : {<<>>}]
    \cup [kind : {"ok"},
          stdout : { <<"6", "7", "\n">>, <<"6", "7", "\n", "7", "1", "\n">>,
                     <<"[", "N", "/", "A", "]", "\n">> }]

\* main.ts 177-184: trim, the first line, parseInt
NvidiaSmiParse(stdout) ==
  LET out == trim(stdout)
      first == FirstLine(out)
  IN parseInt(first)

\* main.ts 194: c.model || c.vendor || 'Unknown GPU'
GpuModel_VendorFirst(c) ==
  IF c.vendor # <<>> THEN c.vendor
  ELSE IF c.model # <<>> THEN c.model
  ELSE s_Unknown

GpuModel(c) ==
  IF c.model # <<>> THEN c.model
  ELSE IF c.vendor # <<>> THEN c.vendor
  ELSE s_Unknown

GpuTempInfo_UnknownWhenAbsent(c, temp, source) ==
  [model |-> GpuModel(c), temperatureGpu |-> temp,
   temperatureMemory |-> ReportedTemp(c.temperatureMemory),
   source |-> IF temp.t = "null" THEN "unknown" ELSE source]

GpuTempInfo_AlwaysLibraryTag(c, temp, source) ==
  [model |-> GpuModel(c), temperatureGpu |-> temp,
   temperatureMemory |-> ReportedTemp(c.temperatureMemory),
   source |-> "systeminformation"]

\* main.ts 193-198: the element pushed for controller c
GpuTempInfo(c, temp, source) ==
  [model |-> GpuModel(c), temperatureGpu |-> temp,
   temperatureMemory |-> ReportedTemp(c.temperatureMemory), source |-> source]

(***************************************************************************)
(* The log sink: logger.<level>(message, meta) records the entry or throws *)
(***************************************************************************)
Entry(level, msg, model, val, source) ==
  [level |-> level, msg |-> msg, model |-> model, val |-> val, source |-> source]
Plain(level, msg) == Entry(level, msg, <<>>, Null, "")

\* main.ts 208-212
CpuMessage(temp, up) ==
  IF temp.t = "null" THEN Plain("info", "CPU temperature unavailable")
  ELSE Entry("info", "CPU temperature", <<>>, ToFixed1(temp, up), "")

GpuElementMessages_NoMemory(gpu) ==
  << IF gpu.temperatureGpu.t = "null"
     THEN Entry("info", "GPU temperature unavailable", gpu.model, Null, gpu.source)
     ELSE Entry("info", "GPU temperature", gpu.model, gpu.temperatureGpu, gpu.source) >>

\* main.ts 219-229: the messages of one element
GpuElementMessages(gpu) ==
  << IF gpu.temperatureGpu.t = "null"
     THEN Entry("info", "GPU temperature unavailable", gpu.model, Null, gpu.source)
     ELSE Entry("info", "GPU temperature", gpu.model, gpu.temperatureGpu, gpu.source) >>
  \o IF gpu.temperatureMemory.t # "null"
     THEN << Entry("info", "GPU memory temperature", gpu.model, gpu.temperatureMemory, "") >>
     ELSE <<>>

\* main.ts 215-231: the messages of the whole list, in order
GpuMessages(gpuTemps) ==
  LET all[i \in 0..Len(gpuTemps)] ==
        IF i = 0 THEN <<>> ELSE all[i - 1] \o GpuElementMessages(gpuTemps[i])
  IN IF Len(gpuTemps) = 0 THEN << Plain("info", "No GPU controllers found") >>
     ELSE all[Len(gpuTemps)]

(***************************************************************************)
(* State                                                                   *)
(***************************************************************************)
VARIABLES
  platform,     \* process.platform
  lhmPathSet,   \* whether process.env.LHM_JSON_PATH is set
  pc,           \* where main is: "loop", "await", "sleep", "rejected" (main's
                \* promise rejected), "exited"
  jpc,          \* where the logSysTemperatures() call main awaits is
  now,          \* Date.now() - started
  elapsed,      \* main's elapsed
  remaining,    \* main's remaining
  failed,       \* the tick's job rejected and main's catch ran
  completed,    \* some tick has run to main.ts 244
  cpuTemp,      \* logSysTemperatures' cpuTemp
  attempts,     \* the strategies the running getCpuTemperature call ran,
                \* with what each yielded
  raisedIn,     \* the function an error escaped from, or "none"
  controllers,  \* graphics.controllers as si.graphics() reported it
  enumFailed,   \* si.graphics() threw
  gi,           \* the index of the controller the loop is at
  result,       \* getGpuTemperatures' result
  cli,          \* for each element of result, what the nvidia-smi call made
                \* for it did ("none": it was not called)
  probe,        \* what the running getCpuTemperature call read: the exported
                \* JSON document, the ACPI query's stdout (or that the query
                \* threw), the zone listing
  log,          \* the info and error entries the sink recorded for
                \* logSysTemperatures and main since main last resumed
  diag          \* the warn and debug entries the sink recorded for the
                \* resolver call in progress, until its caller goes on

vars ==
  <<platform, lhmPathSet, pc, jpc, now, elapsed, remaining, failed, completed,
    cpuTemp, attempts, raisedIn, controllers, enumFailed, gi, result, cli,
    log, diag, probe>>

mainVars == <<pc, now, elapsed, remaining, failed, completed>>
envVars == <<platform, lhmPathSet>>
gpuVars == <<controllers, enumFailed, gi, result, cli>>

\* main.ts 235
intervalMs == 30000

\* the values Date.now() - started takes at main.ts 244 in the model
WorkTimes == {0, 12000, intervalMs, 47000}

\* nothing read yet
NoProbe ==
  [lhm |-> NotAnObject, acpi |-> <<>>, acpiThrew |-> FALSE, zones |-> <<>>]

Init ==
  /\ platform \in {"win32", "linux"}
  /\ lhmPathSet \in BOOLEAN
  /\ pc = "loop"
  /\ jpc = "idle"
  /\ now = 0
  /\ elapsed = 0
  /\ remaining = 0
  /\ failed = FALSE
  /\ completed = FALSE
  /\ cpuTemp = Null
  /\ attempts = <<>>
  /\ raisedIn = "none"
  /\ controllers = <<>>
  /\ enumFailed = FALSE
  /\ gi = 0
  /\ result = <<>>
  /\ cli = <<>>
  /\ log = <<>>
  /\ diag = <<>>
  /\ probe = NoProbe

(***************************************************************************)
(* Steps of getCpuTemperature                                              *)
(***************************************************************************)
Attempt(s, y) == [s |-> s, y |-> y]

\* return v
CpuReturns(v) == jpc' = "log_cpu" /\ cpuTemp' = v /\ raisedIn' = raisedIn

\* fall through to the next strategy
CpuContinues(next) == jpc' = next /\ UNCHANGED <<cpuTemp, raisedIn>>

\* an error leaves the function where
Raises(where) == jpc' = "raised" /\ raisedIn' = where /\ UNCHANGED cpuTemp

\* a catch block of getCpuTemperature: its logger call, then what follows
CpuHandler(level, msg, sinkOk, next) ==
  IF sinkOk
  THEN diag' = Append(diag, Plain(level, msg)) /\ CpuContinues(next)
  ELSE diag' = diag /\ Raises("getCpuTemperature")

\* main.ts 11-21
CpuLibrary ==
  /\ jpc = "cpu_lib"
  /\ \E out \in LibraryOutcomes, sinkOk \in BOOLEAN :
       LET y == IF out.threw THEN Null ELSE LibraryYield(out.main)
       IN /\ attempts' = Append(attempts, Attempt("library", y))
          /\ IF y.t # "null" THEN CpuReturns(y) /\ diag' = diag
             ELSE IF out.threw
             THEN CpuHandler("warn", "systeminformation cpuTemperature() failed, attempting fallback",
                             sinkOk, AfterLibrary(platform))
             ELSE CpuContinues(AfterLibrary(platform)) /\ diag' = diag
  /\ UNCHANGED <<mainVars, envVars, gpuVars, log, probe>>

\* main.ts 29-57
CpuLhmJson ==
  /\ jpc = "cpu_lhm"
  /\ \E exists \in BOOLEAN, parses \in BOOLEAN, json \in LhmDocuments,
        sinkOk \in BOOLEAN :
       IF ~(lhmPathSet /\ exists)
       THEN CpuContinues("cpu_ohm") /\ UNCHANGED <<attempts, diag, probe>>
       ELSE LET y == IF parses THEN LhmYield(json) ELSE Null
            IN /\ attempts' = Append(attempts, Attempt("lhm-json", y))
               /\ probe' = IF parses THEN [probe EXCEPT !.lhm = json] ELSE probe
               /\ IF y.t # "null" THEN CpuReturns(y) /\ diag' = diag
                  ELSE IF ~parses
                  THEN CpuHandler("debug", "Failed parsing LibreHardwareMonitor JSON",
                                  sinkOk, "cpu_ohm")
                  ELSE CpuContinues("cpu_ohm") /\ diag' = diag
  /\ UNCHANGED <<mainVars, envVars, gpuVars, log>>

\* main.ts 60-75
CpuOhmWmi ==
  /\ jpc = "cpu_ohm"
  /\ \E ps \in PsOutcomes, stdout \in OhmOutputs, sinkOk \in BOOLEAN :
       LET threw == ps # "ok"
           y == IF threw THEN Null ELSE OhmYield(stdout)
       IN /\ attempts' = Append(attempts, Attempt("ohm-wmi", y))
          /\ IF y.t # "null" THEN CpuReturns(y) /\ diag' = diag
             ELSE IF threw
             THEN CpuHandler("debug", "OpenHardwareMonitor WMI query failed (likely not running)",
                             sinkOk, "cpu_acpi")
             ELSE CpuContinues("cpu_acpi") /\ diag' = diag
  /\ UNCHANGED <<mainVars, envVars, gpuVars, log, probe>>

\* main.ts 78-98
CpuAcpiWmi ==
  /\ jpc = "cpu_acpi"
  /\ \E ps \in PsOutcomes, stdout \in AcpiOutputs, sinkOk \in BOOLEAN :
       LET threw == ps # "ok"
           up == RoundsUp(parseInt(trim(stdout)))
           y == IF threw THEN Null ELSE AcpiYield(stdout, up)
       IN /\ attempts' = Append(attempts, Attempt("acpi-wmi", y))
          /\ probe' = IF threw THEN [probe EXCEPT !.acpiThrew = TRUE]
                      ELSE [probe EXCEPT !.acpi = stdout]
          /\ IF y.t # "null" THEN CpuReturns(y) /\ diag' = diag
             ELSE IF threw
             THEN CpuHandler("debug", "MSAcpi_ThermalZoneTemperature WMI fallback failed",
                             sinkOk, "cpu_zones")
             ELSE CpuContinues("cpu_zones") /\ diag' = diag
  /\ UNCHANGED <<mainVars, envVars, gpuVars, log>>

\* main.ts 102-139
CpuThermalZones ==
  /\ jpc = "cpu_zones"
  /\ \E baseExists \in BOOLEAN, threw \in BOOLEAN, entries \in ZoneListings,
        sinkOk \in BOOLEAN :
       LET y == IF ~baseExists \/ threw THEN Null ELSE ZonesYield(entries)
       IN /\ attempts' = Append(attempts, Attempt("thermal-zones", y))
          /\ probe' = IF ~baseExists \/ threw THEN probe
                      ELSE [probe EXCEPT !.zones = entries]
          /\ IF baseExists /\ threw /\ ~sinkOk
             THEN diag' = diag /\ Raises("getCpuTemperature")
             ELSE /\ CpuReturns(y)
                  /\ diag' = IF baseExists /\ threw
                            THEN Append(diag, Plain("warn", "CPU thermal zone fallback failed"))
                            ELSE diag
  /\ UNCHANGED <<mainVars, envVars, gpuVars, log>>

(***************************************************************************)
(* Steps of logSysTemperatures and getGpuTemperatures                      *)
(***************************************************************************)
\* main.ts 208-212
LogCpu ==
  /\ jpc = "log_cpu"
  /\ \E sinkOk \in BOOLEAN, up \in BOOLEAN :
       IF sinkOk
       THEN /\ log' = Append(log, CpuMessage(cpuTemp, up))
            /\ jpc' = "gpu_enum"
            /\ UNCHANGED <<cpuTemp, raisedIn>>
       ELSE log' = log /\ Raises("logSysTemperatures")
  /\ attempts' = <<>>
  /\ diag' = <<>>
  /\ probe' = NoProbe
  /\ UNCHANGED <<mainVars, envVars, gpuVars>>

\* the outer catch of getGpuTemperatures, main.ts 200-203: logger.warn, then
\* return result
GpuOuterCatch(sinkOk) ==
  IF sinkOk
  THEN /\ diag' = Append(diag, Plain("warn", "systeminformation graphics() failed"))
       /\ jpc' = "log_gpu"
       /\ UNCHANGED <<cpuTemp, raisedIn>>
  ELSE diag' = diag /\ Raises("getGpuTemperatures")

\* main.ts 153-155
GpuEnumerate ==
  /\ jpc = "gpu_enum"
  /\ \E threw \in BOOLEAN, cs \in ControllerLists, sinkOk \in BOOLEAN :
       /\ result' = <<>>
       /\ cli' = <<>>
       /\ gi' = 1
       /\ enumFailed' = threw
       /\ IF threw
          THEN controllers' = <<>> /\ GpuOuterCatch(sinkOk)
          ELSE /\ controllers' = cs
               /\ jpc' = IF cs = <<>> THEN "log_gpu" ELSE "gpu_loop"
               /\ UNCHANGED <<cpuTemp, raisedIn, diag>>
  /\ UNCHANGED <<mainVars, envVars, attempts, log, probe>>

\* the loop goes on to the next controller, or the function returns result
NotCalled == [kind |-> "none", stdout |-> <<>>]

GpuPushes(info, smi) ==
  /\ result' = Append(result, info)
  /\ cli' = Append(cli, smi)
  /\ gi' = gi + 1
  /\ jpc' = IF gi = Len(controllers) THEN "log_gpu" ELSE "gpu_loop"
  /\ UNCHANGED <<cpuTemp, raisedIn>>

\* main.ts 156-199: one iteration of the loop over the controllers
GpuController ==
  /\ jpc = "gpu_loop"
  /\ LET c == controllers[gi]
         temp == ReportedTemp(c.temperatureGpu)
     IN IF temp.t = "null" /\ IsNvidia(c)
        THEN \E smi \in NvidiaSmiOutcomes, debugOk \in BOOLEAN, warnOk \in BOOLEAN :
               CASE smi.kind = "hangs" ->
                      /\ jpc' = "blocked"
                      /\ UNCHANGED <<cpuTemp, raisedIn, result, cli, gi, diag>>
                 [] smi.kind = "fails" ->
                      IF debugOk
                      THEN /\ diag' = Append(diag, Plain("debug", "nvidia-smi fallback failed"))
                           /\ GpuPushes(GpuTempInfo(c, temp, "systeminformation"), smi)
                      ELSE GpuOuterCatch(warnOk) /\ UNCHANGED <<result, cli, gi>>
                 [] OTHER ->
                      LET parsed == NvidiaSmiParse(smi.stdout)
                      IN /\ diag' = diag
                         /\ IF parsed.t # "nan"
                            THEN GpuPushes(GpuTempInfo(c, parsed, "nvidia-smi"), smi)
                            ELSE GpuPushes(GpuTempInfo(c, temp, "systeminformation"), smi)
        ELSE diag' = diag /\ GpuPushes(GpuTempInfo(c, temp, "systeminformation"), NotCalled)
  /\ UNCHANGED <<mainVars, envVars, attempts, controllers, enumFailed, log, probe>>

\* main.ts 214-231: the sink throws at the call after the first k, or never
LogGpu ==
  /\ jpc = "log_gpu"
  /\ LET msgs == GpuMessages(result)
     IN \E k \in 0..Len(msgs) :
          /\ log' = log \o SubSeq(msgs, 1, k)
          /\ IF k = Len(msgs)
             THEN jpc' = "returned" /\ UNCHANGED <<cpuTemp, raisedIn>>
             ELSE Raises("logSysTemperatures")
  /\ diag' = <<>>
  /\ UNCHANGED <<mainVars, envVars, gpuVars, attempts, probe>>

(***************************************************************************)
(* Steps of main                                                           *)
(***************************************************************************)
\* main.ts 238-240: started = Date.now(); logSysTemperatures() is called
TickStart ==
  /\ pc = "loop"
  /\ pc' = "await"
  /\ jpc' = "cpu_lib"
  /\ now' = 0
  /\ elapsed' = 0
  /\ remaining' = 0
  /\ failed' = FALSE
  /\ cpuTemp' = Null
  /\ attempts' = <<>>
  /\ raisedIn' = "none"
  /\ controllers' = <<>>
  /\ enumFailed' = FALSE
  /\ gi' = 0
  /\ result' = <<>>
  /\ cli' = <<>>
  /\ log' = <<>>
  /\ diag' = <<>>
  /\ probe' = NoProbe
  /\ UNCHANGED <<envVars, completed>>

\* the promise main awaits at main.ts 240 has settled
JobSettled_NoAwait == TRUE

JobSettled == jpc \in {"returned", "raised"}

\* main.ts 245
Remaining_NoDriftCorrection(interval, e) == interval

Remaining(interval, e) == interval - e

\* main.ts 244-247, with t what Date.now() - started is at line 244: elapsed,
\* remaining, and the timer when remaining > 0 (else the loop goes round)
Measure(t) ==
  /\ now' = t
  /\ elapsed' = t
  /\ remaining' = Remaining(intervalMs, t)
  /\ pc' = IF Remaining(intervalMs, t) > 0 THEN "sleep" ELSE "loop"
  /\ completed' = TRUE

\* main.ts 240-248: the await resumes and main runs on to its next
\* suspension in one turn: a rejection runs the catch block (logger.error,
\* which records the entry or throws out of main), then the time is measured.
\* The locals of the settled call are gone, and log starts again with what
\* main itself records.
Resume ==
  /\ pc = "await"
  /\ JobSettled
  /\ IF jpc = "raised"
     THEN /\ failed' = TRUE
          /\ \/ \E t \in WorkTimes :
                  log' = << Plain("error", "Job failed") >> /\ Measure(t)
             \/ /\ log' = <<>>
                /\ pc' = "rejected"
                /\ UNCHANGED <<now, elapsed, remaining, completed>>
     ELSE /\ failed' = failed
          /\ log' = <<>>
          /\ \E t \in WorkTimes : Measure(t)
  /\ cpuTemp' = Null
  /\ controllers' = <<>>
  /\ gi' = 0
  /\ result' = <<>>
  /\ cli' = <<>>
  /\ diag' = <<>>
  /\ UNCHANGED <<envVars, jpc, enumFailed, attempts, raisedIn, probe>>

\* main.ts 247: the timer set for remaining milliseconds fires
TimerFires ==
  /\ pc = "sleep"
  /\ now' = now + remaining
  /\ pc' = "loop"
  /\ UNCHANGED <<envVars, gpuVars, jpc, elapsed, remaining, failed, completed,
                 cpuTemp, attempts, raisedIn, log, diag, probe>>

\* main.ts 252-255: main's promise rejected: logger.error, process.exit(1)
Fatal ==
  /\ pc = "rejected"
  /\ pc' = "exited"
  /\ \E sinkOk \in BOOLEAN :
       log' = IF sinkOk THEN Append(log, Plain("error", "Fatal")) ELSE log
  /\ UNCHANGED <<envVars, gpuVars, jpc, now, elapsed, remaining, failed,
                 completed, cpuTemp, attempts, raisedIn, diag, probe>>

Next ==
  \/ TickStart
  \/ CpuLibrary
  \/ CpuLhmJson
  \/ CpuOhmWmi
  \/ CpuAcpiWmi
  \/ CpuThermalZones
  \/ LogCpu
  \/ GpuEnumerate
  \/ GpuController
  \/ LogGpu
  \/ Resume
  \/ TimerFires
  \/ Fatal

Spec == Init /\ [][Next]_vars


\* ---------------------------------------------------------------------
\* Properties of the poll loop and of the CPU resolver
\* ---------------------------------------------------------------------

HasEntry(entries, level, msg) ==
  \E i \in 1..Len(entries) : entries[i].level = level /\ entries[i].msg = msg

LastAttempt == attempts[Len(attempts)]

\* C1: a tick whose work raised an error has that error caught at the tick
\* boundary and logged at error severity, and main goes on to the next tick
\* (it sleeps or loops); the process is neither rejected nor exited.
C1_FailedTickIsLoggedAndLoopGoesOn ==
  failed => /\ pc \in {"sleep", "loop"}
            /\ HasEntry(log, "error", "Job failed")

C3_CpuResolverNeverRaises ==
  raisedIn # "getCpuTemperature"


\* the strategies getCpuTemperature has, in the order of its text
Chain == << "library", "lhm-json", "ohm-wmi", "acpi-wmi", "thermal-zones" >>

ChainIndex(s) == CHOOSE k \in 1..Len(Chain) : Chain[k] = s

WindowsOnly == {"lhm-json", "ohm-wmi", "acpi-wmi"}

\* the strategies that must have been attempted before strategy s is: all
\* the earlier ones the platform has, the JSON export only when a path is set
DueBefore(s) ==
  { Chain[k] : k \in 1..(ChainIndex(s) - 1) }
    \ ((IF platform = "win32" THEN {} ELSE WindowsOnly) \cup {"lhm-json"})

Attempted == { attempts[i].s : i \in 1..Len(attempts) }

\* C4: getCpuTemperature attempts its strategies in the fixed order library,
\* exported JSON, hardware-monitor WMI, ACPI WMI, kernel thermal zones; the
\* three Windows strategies only on win32 (the JSON export only with a path
\* set), no strategy is skipped, none is attempted once an earlier one has
\* yielded a value, and the function returns the first value yielded.
C4_StrategiesInPriorityOrder ==
  /\ \A i \in 1..Len(attempts) : \A j \in 1..Len(attempts) :
        i < j => ChainIndex(attempts[i].s) < ChainIndex(attempts[j].s)
  /\ \A i \in 1..Len(attempts) :
        /\ i < Len(attempts) => attempts[i].y = Null
        /\ DueBefore(attempts[i].s) \subseteq Attempted
        /\ attempts[i].s \in WindowsOnly => platform = "win32"
        /\ attempts[i].s = "lhm-json" => lhmPathSet
  /\ jpc = "log_cpu" =>
        /\ attempts # <<>>
        /\ cpuTemp = LastAttempt.y
        /\ cpuTemp = Null => LastAttempt.s = "thermal-zones"

\* C4: on win32 the library, the JSON export and the hardware monitor
\* yielded nothing and the ACPI query, attempted fourth, yielded the value
\* returned
C4_FourthStrategyYields ==
  /\ jpc = "log_cpu"
  /\ platform = "win32"
  /\ Len(attempts) = 4
  /\ LastAttempt.s = "acpi-wmi"
  /\ cpuTemp.t = "num"

\* C5: when main has measured a tick, it sleeps for intervalMs minus the
\* time the tick took, and not at all when the tick took that long or
\* longer; so the next tick starts intervalMs after this one started, or at
\* once when the tick overran. This holds of a failed tick as of any other.
C5_NextTickAfterIntervalFromStart ==
  (completed /\ pc \in {"sleep", "loop"}) =>
     /\ remaining = intervalMs - elapsed
     /\ pc = "sleep" => (remaining > 0 /\ now = elapsed)
     /\ pc = "loop" =>
          now = (IF elapsed < intervalMs THEN intervalMs ELSE elapsed)

\* C5: a tick failed after 12 seconds, and main is about to start the next
\* tick 30 seconds after that tick started
C5_FailedTickKeepsCadence ==
  /\ pc = "loop"
  /\ completed
  /\ failed
  /\ elapsed = 12000
  /\ now = intervalMs

\* C6: ticks do not overlap: while main sleeps or is about to start a tick,
\* no call of logSysTemperatures is in progress (the previous one has
\* returned or raised).
C6_NoTickInProgressOutsideAwait ==
  pc \in {"sleep", "loop"} => jpc \in {"idle", "returned", "raised"}

\* C6: main sleeps after a tick that took 12 seconds, its call having
\* returned
C6_SleepsAfterTheCallReturned ==
  /\ pc = "sleep"
  /\ jpc = "returned"
  /\ elapsed = 12000


\* ---------------------------------------------------------------------
\* Properties of the GPU enumerator and of subprocesses
\* ---------------------------------------------------------------------

\* a step of the call of logSysTemperatures that main awaits
JobStep ==
  \/ CpuLibrary \/ CpuLhmJson \/ CpuOhmWmi \/ CpuAcpiWmi \/ CpuThermalZones
  \/ LogCpu \/ GpuEnumerate \/ GpuController \/ LogGpu

\* C7: every subprocess a tick starts is bounded by a timeout, so a tick in
\* progress is never stuck: as long as the call main awaits has not settled,
\* it can take a next step, even after a subprocess hung.
C7_TickInProgressIsNeverStuck ==
  (pc = "await" /\ jpc \notin {"returned", "raised"}) => ENABLED JobStep

\* C8: when getGpuTemperatures returns, its result has exactly one element
\* for each controller the enumeration reported, in the enumeration's order,
\* whatever became of each controller's temperature.
C8_OneElementPerControllerInOrder ==
  jpc = "log_gpu" =>
     /\ Len(result) = Len(controllers)
     /\ \A i \in 1..Len(result) :
           /\ result[i].model \in
                 {controllers[i].model, controllers[i].vendor, s_Unknown}
           /\ result[i].temperatureMemory =
                 ReportedTemp(controllers[i].temperatureMemory)

\* C9: getGpuTemperatures never raises, and when si.graphics() fails it
\* returns an empty sequence and a warning has been logged.
C9_GpuEnumeratorNeverRaises ==
  /\ raisedIn # "getGpuTemperatures"
  /\ (jpc = "log_gpu" /\ enumFailed) =>
        /\ result = <<>>
        /\ HasEntry(diag, "warn", "systeminformation graphics() failed")

\* the integer the first line of the CLI's output stands for, for the
\* outputs that have one
FirstLineInteger(stdout) ==
  IF stdout \in { <<"6", "7", "\n">>, <<"6", "7", "\n", "7", "1", "\n">> }
  THEN Num(67000)
  ELSE NaN

\* C10: for a controller whose library temperature is absent and whose
\* vendor and model contain 'nvidia', when nvidia-smi succeeded and the first
\* line it printed is an integer, the element has that integer as its
\* temperatureGpu, 'nvidia-smi' as its source, and as its model the
\* controller's model, else its vendor, else 'Unknown GPU'.
C10_CliValueSourceAndModel ==
  \A i \in 1..Len(result) :
     LET c == controllers[i]
     IN (/\ c.temperatureGpu.t \in {"null", "nan"}
         /\ Contains(ToLower(c.vendor \o <<" ">> \o c.model),
                     <<"n", "v", "i", "d", "i", "a">>)
         /\ cli[i].kind = "ok"
         /\ FirstLineInteger(cli[i].stdout) # NaN) =>
           /\ result[i].temperatureGpu = FirstLineInteger(cli[i].stdout)
           /\ result[i].source = "nvidia-smi"
           /\ result[i].model =
                 (IF c.model # <<>> THEN c.model
                  ELSE IF c.vendor # <<>> THEN c.vendor ELSE s_Unknown)

\* C10: the controller NVIDIA / RTX X without a library temperature, the CLI
\* printing 67 on its first line: the element is RTX X, 67, nvidia-smi; and
\* a second controller without a model is named by its vendor
C10_CliOverwritesAbsentTemperature ==
  /\ Len(result) = 2
  /\ controllers[1] = Controller(s_NVIDIA, s_RTX, Null, Null)
  /\ cli[1] = [kind |-> "ok", stdout |-> <<"6", "7", "\n">>]
  /\ result[1] = [model |-> s_RTX, temperatureGpu |-> Num(67000),
                  temperatureMemory |-> Null, source |-> "nvidia-smi"]
  /\ controllers[2].model = <<>>
  /\ cli[2].kind = "ok"
  /\ result[2].model = s_NVIDIA
  /\ result[2].source = "nvidia-smi"


\* the CLI was called for element i and the first line it printed is an
\* integer
ParsedFromCli(i) ==
  cli[i].kind = "ok" /\ FirstLineInteger(cli[i].stdout) # NaN

\* C11: the source tag of every element tells where its temperatureGpu
\* comes from: it is 'nvidia-smi' exactly when the value was parsed from the
\* output of nvidia-smi, and it is 'systeminformation' whenever the value is
\* the one the library reported.
C11_SourceTagTellsTheStrategy ==
  \A i \in 1..Len(result) :
     /\ result[i].source = "nvidia-smi" <=>
           /\ ParsedFromCli(i)
           /\ result[i].temperatureGpu = FirstLineInteger(cli[i].stdout)
     /\ controllers[i].temperatureGpu.t \in {"num", "inf"} =>
           /\ result[i].temperatureGpu = controllers[i].temperatureGpu
           /\ result[i].source = "systeminformation"

\* C11: one element whose value was parsed from the CLI and one whose value
\* the library reported, each with its tag
C11_BothTagsProduced ==
  /\ Len(result) = 2
  /\ ParsedFromCli(1)
  /\ result[1].source = "nvidia-smi"
  /\ controllers[2].temperatureGpu = Num(60000)
  /\ result[2].temperatureGpu = Num(60000)
  /\ result[2].source = "systeminformation"


\* ---------------------------------------------------------------------
\* Properties of the single strategies of getCpuTemperature
\* ---------------------------------------------------------------------

\* strategy s was attempted by the running call, and what it yielded
Ran(s) == \E i \in 1..Len(attempts) : attempts[i].s = s

Yielded(s) ==
  LET i == CHOOSE j \in 1..Len(attempts) : attempts[j].s = s
  IN attempts[i].y

s_3281 == <<"3", "2", "8", "1">>

\* what the ACPI query printed is the integer raw
AcpiPrinted(raw) ==
  Ran("acpi-wmi") /\ ~probe.acpiThrew /\ trim(probe.acpi) = raw

\* C12 as the specification states it: the ACPI strategy computes
\* raw / 10 - 273.15 and rounds to one decimal; raw = 3281 is 55.05 before
\* and 55.1 after rounding; raw = 0 and negative raw yield nothing.
C12_Raw3281Gives55Point1 ==
  /\ AcpiPrinted(s_3281) =>
        /\ DeciKelvinToCelsius(parseInt(s_3281)) = Num(55050)
        /\ Yielded("acpi-wmi") = Num(55100)
  /\ (AcpiPrinted(<<"0">>) \/ AcpiPrinted(<<"-", "1", "0">>)) =>
        Yielded("acpi-wmi") = Null

\* C12, amended: the ACPI strategy computes raw / 10 - 273.15 and rounds to
\* one decimal, so what it yields is a whole number of tenths 0.05 away from
\* the converted value; raw = 3281 is 54.95 before and 55.0 after rounding;
\* raw = 0 and negative raw yield nothing.
C12_Raw3281Gives55Point0 ==
  /\ AcpiPrinted(s_3281) =>
        /\ DeciKelvinToCelsius(parseInt(s_3281)) = Num(54950)
        /\ Yielded("acpi-wmi") = Num(55000)
  /\ (AcpiPrinted(<<"0">>) \/ AcpiPrinted(<<"-", "1", "0">>)) =>
        Yielded("acpi-wmi") = Null
  /\ (Ran("acpi-wmi") /\ Yielded("acpi-wmi") # Null) =>
        LET raw == parseInt(trim(probe.acpi)).v \div 1000
            c == raw * 100 - 273150
            y == Yielded("acpi-wmi").v
        IN /\ y % 100 = 0
           /\ (y - c = 50 \/ c - y = 50)

\* C12: the ACPI query printed 3281 and getCpuTemperature returned 55.0
C12_Raw3281Returned ==
  /\ jpc = "log_cpu"
  /\ AcpiPrinted(s_3281)
  /\ cpuTemp = Num(55000)


\* a directory entry that counts in the scan: a thermal zone whose type and
\* temp files exist and can be read, whose label contains cpu, x86_pkg or
\* soc in any case, and whose temp starts with an integer
Qualifies(z) ==
  /\ z.zone /\ z.typeExists /\ z.tempExists /\ z.typeReads /\ z.tempReads
  /\ \E pat \in { <<"c", "p", "u">>, <<"x", "8", "6", "_", "p", "k", "g">>,
                  <<"s", "o", "c">> } : Contains(ToLower(z.type), pat)
  /\ parseInt(trim(z.temp)) # NaN

\* the readings, in thousandths of a degree, of the zones that count
QualifiedReadings(entries) ==
  { parseInt(trim(entries[i].temp)).v \div 1000 :
      i \in { j \in 1..Len(entries) : Qualifies(entries[j]) } }

ExampleZones ==
  << Zone(z_wifi, m_30000), Zone(z_x86, m_52000), Zone(z_soc, m_48000) >>

\* C13: the thermal-zone scan yields the maximum of raw / 1000 over the
\* zones that are readable, have a matching label and a numeric temp, and
\* nothing when no zone qualifies or the zone tree was not read; the zones
\* iwlwifi=30000, x86_pkg_temp=52000, soc-thermal=48000 give 52.0.
C13_ZoneScanYieldsMaxOfMatches ==
  Ran("thermal-zones") =>
     LET readings == QualifiedReadings(probe.zones)
         y == Yielded("thermal-zones")
     IN /\ readings = {} => y = Null
        /\ readings # {} =>
              /\ y.t = "num"
              /\ y.v \in readings
              /\ \A r \in readings : r <= y.v
        /\ probe.zones = ExampleZones => y = Num(52000)

\* C13: the scan read the three zones of the example and getCpuTemperature
\* returned 52.0
C13_ExampleZonesGive52 ==
  /\ jpc = "log_cpu"
  /\ Ran("thermal-zones")
  /\ probe.zones = ExampleZones
  /\ cpuTemp = Num(52000)


\* ---------------------------------------------------------------------
\* Properties of what a tick logs, and of the process exit
\* ---------------------------------------------------------------------

\* the elements before element i, or up to it, that have a memory temperature
WithMemory(n) == { j \in 1..n : result[j].temperatureMemory # Null }

\* where the temperature message of element i stands in the tick's log:
\* after the CPU message and after the messages of the elements before it
TempIdx(i) == 1 + i + Cardinality(WithMemory(i - 1))

\* C14: a tick that completes without a tick-level error has logged, all at
\* info level: first exactly one CPU message (the value, or unavailable);
\* then, when getGpuTemperatures returned no element, exactly one 'No GPU
\* controllers found'; otherwise, for each returned element in order, one
\* temperature message (value or unavailable, with model and source),
\* followed by one memory-temperature message exactly when the element has a
\* memory temperature; and nothing else.
C14_TickLogsOneMessagePerReading ==
  (pc = "await" /\ jpc = "returned") =>
     /\ \A i \in 1..Len(log) : log[i].level = "info"
     /\ { i \in 1..Len(log) :
            log[i].msg \in {"CPU temperature", "CPU temperature unavailable"} }
          = {1}
     /\ (log[1].msg = "CPU temperature unavailable") <=> (cpuTemp = Null)
     /\ result = <<>> =>
           /\ Len(log) = 2
           /\ log[2].msg = "No GPU controllers found"
     /\ result # <<>> =>
           /\ Len(log) = 1 + Len(result) + Cardinality(WithMemory(Len(result)))
           /\ \A i \in 1..Len(result) :
                 LET e == result[i]
                     t == log[TempIdx(i)]
                 IN /\ t.msg = (IF e.temperatureGpu = Null
                                THEN "GPU temperature unavailable"
                                ELSE "GPU temperature")
                    /\ t.model = e.model
                    /\ t.val = e.temperatureGpu
                    /\ t.source = e.source
                    /\ e.temperatureMemory # Null =>
                          LET m == log[TempIdx(i) + 1]
                          IN /\ m.msg = "GPU memory temperature"
                             /\ m.model = e.model
                             /\ m.val = e.temperatureMemory

\* C14: a tick completed with two elements, the first without and the second
\* with a memory temperature: four messages
C14_TwoElementsOneWithMemory ==
  /\ pc = "await"
  /\ jpc = "returned"
  /\ Len(result) = 2
  /\ result[1].temperatureMemory = Null
  /\ result[2].temperatureMemory = Num(70000)
  /\ Len(log) = 4


\* C15: once the loop runs, nothing that fails in a tick, the log sink
\* included, makes main's promise reject or ends the process: exit with
\* status 1 is left to failures of the start-up.
C15_NoRejectionOnceTheLoopRuns ==
  pc \notin {"rejected", "exited"}

\* C16: the ACPI strategy yields a value exactly when the query printed an
\* integer raw whose conversion raw / 10 - 273.15 lies strictly between -50
\* and 150; for any other integer, and for empty or non-numeric output, it
\* yields nothing and the kernel thermal-zone scan is what comes next.
C16_AcpiYieldsOnlyInsideOpenRange ==
  (Ran("acpi-wmi") /\ ~probe.acpiThrew) =>
     LET out == trim(probe.acpi)
         raw == parseInt(out)
         c == (raw.v \div 1000) * 100 - 273150
         y == Yielded("acpi-wmi")
     IN /\ y # Null <=> (out # <<>> /\ raw # NaN /\ c > -50000 /\ c < 150000)
        /\ (y = Null /\ LastAttempt.s = "acpi-wmi") => jpc = "cpu_zones"
        /\ (y = Null /\ LastAttempt.s # "acpi-wmi") =>
              LastAttempt.s = "thermal-zones"

\* C16: the query printed 4232, which converts to 150.05; the strategy
\* yielded nothing and the thermal-zone scan is next
C16_JustAboveRangeIsRejected ==
  /\ AcpiPrinted(<<"4", "2", "3", "2">>)
  /\ LastAttempt.s = "acpi-wmi"
  /\ LastAttempt.y = Null
  /\ jpc = "cpu_zones"


\* ---------------------------------------------------------------------
\* Properties of the CLI fallback of getGpuTemperatures
\* ---------------------------------------------------------------------

\* the library reported no temperature for controller c and its vendor and
\* model contain 'nvidia'
NeedsCli(c) ==
  /\ c.temperatureGpu.t \in {"null", "nan"}
  /\ Contains(ToLower(c.vendor \o <<" ">> \o c.model),
              <<"n", "v", "i", "d", "i", "a">>)

\* C17: nvidia-smi is called for a controller only when the library reported
\* no temperature for it and its vendor and model contain 'nvidia'; when the
\* call fails (it throws, or its first line is no integer) the element has no
\* temperatureGpu and the source 'systeminformation', and the element is
\* still returned: getGpuTemperatures returns an element for every
\* controller; the memory temperature is the library's in every case.
C17_CliFailureLeavesElementAbsent ==
  /\ \A i \in 1..Len(result) :
        /\ cli[i].kind # "none" => NeedsCli(controllers[i])
        /\ (cli[i].kind # "none" /\ ~ParsedFromCli(i)) =>
              /\ result[i].temperatureGpu = Null
              /\ result[i].source = "systeminformation"
        /\ result[i].temperatureMemory =
              (IF controllers[i].temperatureMemory.t \in {"num", "inf"}
               THEN controllers[i].temperatureMemory ELSE Null)
  /\ jpc = "log_gpu" => Len(result) = Len(controllers)

s_TwoGpus == <<"6", "7", "\n", "7", "1", "\n">>

\* how many of the first i controllers are NVIDIA ones: nvidia-smi prints one
\* line for each NVIDIA GPU
NvidiaRank(i) ==
  Cardinality({ j \in 1..i :
     Contains(ToLower(controllers[j].vendor \o <<" ">> \o controllers[j].model),
              <<"n", "v", "i", "d", "i", "a">>) })

\* C18: each controller's temperature is its own: when nvidia-smi prints 67
\* for the first and 71 for the second NVIDIA GPU, the element of the first
\* NVIDIA controller resolved through the CLI carries 67 and the element of
\* the second carries 71.
C18_EachElementCarriesItsOwnTemperature ==
  \A i \in 1..Len(result) :
     (cli[i].kind = "ok" /\ cli[i].stdout = s_TwoGpus) =>
        /\ NvidiaRank(i) = 1 => result[i].temperatureGpu = Num(67000)
        /\ NvidiaRank(i) = 2 => result[i].temperatureGpu = Num(71000)


\* ---------------------------------------------------------------------
\* Properties of the exported-JSON strategy
\* ---------------------------------------------------------------------

\* all the objects of the tree under node, at any depth
RECURSIVE NodesOf(_)
NodesOf(node) ==
  IF ~node.obj THEN {}
  ELSE {node} \cup
       UNION { NodesOf(node.Children[i]) : i \in 1..Len(node.Children) }

\* the numeric values of the nodes whose label contains, in any case, one of
\* tctl, tdie, package, cpu temp, ccd, core (tctl/tdie)
MatchingValues(doc) ==
  { n.Value : n \in { m \in NodesOf(doc) :
      /\ m.Value # Null
      /\ \E pat \in { <<"t", "c", "t", "l">>, <<"t", "d", "i", "e">>,
                      <<"p", "a", "c", "k", "a", "g", "e">>,
                      <<"c", "p", "u", " ", "t", "e", "m", "p">>,
                      <<"c", "c", "d">> } :
            Contains(ToLower(m.Text), pat) } }

\* the exported-JSON strategy yields the greatest of the matching values of
\* the document it parsed, and nothing when there is none
LhmYieldsMaxOfMatches ==
  Ran("lhm-json") =>
     LET vals == MatchingValues(probe.lhm)
         y == Yielded("lhm-json")
     IN /\ vals = {} => y = Null
        /\ vals # {} => (y \in vals /\ \A v \in vals : ~Gt(v, y))

\* C19: the exported-JSON strategy walks the whole tree and yields the
\* greatest numeric value of the nodes, at any depth, whose label matches;
\* with malformed JSON or no matching node it yields nothing and the chain
\* goes on with the hardware-monitor query.
C19_JsonWalkYieldsMaxAndChainGoesOn ==
  /\ LhmYieldsMaxOfMatches
  /\ (Ran("lhm-json") /\ Yielded("lhm-json") = Null) =>
        IF LastAttempt.s = "lhm-json"
        THEN jpc = "cpu_ohm"
        ELSE Ran("ohm-wmi")


\* C20: no element ever carries the source 'unknown': the source of every
\* element is 'systeminformation' or 'nvidia-smi', and that of an element
\* without a temperatureGpu is 'systeminformation'.
C20_SourceIsNeverUnknown ==
  \A i \in 1..Len(result) :
     /\ result[i].source \in {"systeminformation", "nvidia-smi"}
     /\ result[i].source # "unknown"
     /\ result[i].temperatureGpu = Null =>
           result[i].source = "systeminformation"

\* C20: the library reported no temperature, nvidia-smi failed, and the
\* element without a value carries 'systeminformation'
C20_AbsentValueTaggedLibrary ==
  /\ Len(result) = 1
  /\ controllers[1].temperatureGpu = Null
  /\ cli[1].kind = "fails"
  /\ result[1].temperatureGpu = Null
  /\ result[1].source = "systeminformation"

=============================================================================
